---- MODULE Spec2Model ----
(***************************************************************************)
(* Model of pycbc/psd/read.py: the PSD resampler from_numpy_arrays and the *)
(* time-varying PSD selector PrecomputedTimeVaryingPSD.                    *)
(*                                                                         *)
(* Frequencies, times and PSD values are integers (a fixed unit), so that  *)
(* int(a / b) of the source is a \div b on non-negative operands.          *)
(* Python sequences are 0-based; the model's sequences are 1-based and     *)
(* every index that the source computes is kept 0-based and converted by   *)
(* PyGet / PySliceFrom.                                                    *)
(***************************************************************************)
EXTENDS Integers, Sequences, FiniteSets, TLC

\* ---- bounds of the resampler's inputs
MaxFreq == 5
MaxN == 3
MaxNoise == 2
MaxLen == 4
MaxDf == 2
MaxCut == 6

\* ---- bounds of the selector's store and inputs
MaxT == 5
MaxStore == 3
MaxBins == 3
MaxVal == 2
MaxFlow == 3

\* numpy.inf and Python's None, as values outside the naturals
Inf == -1
None == -2

VARIABLES
    np_call,            \* arguments of the last from_numpy_arrays call
    np_ret,             \* its outcome
    start_times,        \* self.start_times
    end_times,          \* self.end_times
    file_f_low,         \* self.file_f_low
    f_low,              \* self.f_low
    length,             \* self.length
    psd_inverse_length, \* self.psd_inverse_length
    psds,               \* the PSD payloads of the backing file, by index
    sel_call,           \* arguments of the last selector call
    sel_ret             \* its outcome

resampler_vars == <<np_call, np_ret>>
selector_vars == <<start_times, end_times, file_f_low, f_low, length,
                   psd_inverse_length, psds, sel_call, sel_ret>>
vars == <<np_call, np_ret, start_times, end_times, file_f_low, f_low, length,
          psd_inverse_length, psds, sel_call, sel_ret>>

\* ------------------------------------------------------------------------
\* Python / numpy primitives
\* ------------------------------------------------------------------------

\* a[i] of Python for a 0-based, possibly negative, index: is it in range?
PyIndexOK(a, i) == i >= 0 - Len(a) /\ i <= Len(a) - 1

\* a[i] of Python, for an index in range
PyGet(a, i) == IF i >= 0 THEN a[i + 1] ELSE a[Len(a) + i + 1]

\* a[i:] of Python: a negative start counts from the end and is clipped at 0
PySliceFrom(a, i) ==
    LET start == IF i >= 0 THEN i ELSE IF Len(a) + i >= 0 THEN Len(a) + i ELSE 0
    IN  SubSeq(a, start + 1, Len(a))

\* numpy.searchsorted(a, v), side='left', on a sorted array: the 0-based
\* insertion index, which is the number of elements strictly below v
searchsorted(a, v) == Cardinality({i \in 1..Len(a) : a[i] < v})

\* ------------------------------------------------------------------------
\* from_numpy_arrays
\* ------------------------------------------------------------------------

\* A bin of the returned series. Bins below kmin keep the 0.0 of numpy.zeros.
ZeroBin == [kind |-> "zero", nlo |-> 0, nhi |-> 0, flo |-> 0, fhi |-> 0, f |-> 0]

\* exp(psd_interp(log(f))): the log-log interpolant of (fd, nd) at frequency
\* f. Outside [fd[0], fd[-1]] the fill_value clamps to the first / last
\* sample; on a sample the value is that sample; between two samples the
\* value is the interpolant on the bracketing pair, kept as its stencil.
psd_interp(fd, nd, f) ==
    IF f <= fd[1]
    THEN [kind |-> "sample", nlo |-> nd[1], nhi |-> nd[1],
          flo |-> fd[1], fhi |-> fd[1], f |-> f]
    ELSE IF f >= fd[Len(fd)]
    THEN [kind |-> "sample", nlo |-> nd[Len(nd)], nhi |-> nd[Len(nd)],
          flo |-> fd[Len(fd)], fhi |-> fd[Len(fd)], f |-> f]
    ELSE LET i == CHOOSE j \in 1..(Len(fd) - 1) : fd[j] <= f /\ f < fd[j + 1]
         IN  IF fd[i] = f
             THEN [kind |-> "sample", nlo |-> nd[i], nhi |-> nd[i],
                   flo |-> f, fhi |-> f, f |-> f]
             ELSE [kind |-> "interp", nlo |-> nd[i], nhi |-> nd[i + 1],
                   flo |-> fd[i], fhi |-> fd[i + 1], f |-> f]

\* the outcome of a call that raised
Raised(err, data_start) ==
    [kind |-> err, psd |-> <<>>, delta_f |-> 0, kmin |-> 0, flow |-> 0,
     data_start |-> data_start, freq_data |-> <<>>, noise_data |-> <<>>,
     warned |-> FALSE]

\* faulty variant: the comparison of line 53 reversed
cutoff_below_data_reversed(freq_data, low_freq_cutoff) ==
    freq_data[1] < low_freq_cutoff

\* line 53: the lowest input frequency is above the requested cutoff
cutoff_below_data(freq_data, low_freq_cutoff) ==
    freq_data[1] > low_freq_cutoff

\* lines 57-88, after the check of line 53 has passed
resample(freq_data, noise_data, len, delta_f, low_freq_cutoff) ==
    LET kmin == low_freq_cutoff \div delta_f
        flow == kmin * delta_f
        ds0 == IF freq_data[1] = low_freq_cutoff
               THEN 0
               ELSE searchsorted(freq_data, flow) - 1
    IN  IF ~PyIndexOK(freq_data, ds0 + 1)
        THEN Raised("IndexError", ds0)
        ELSE
        LET data_start == IF PyGet(freq_data, ds0 + 1) = low_freq_cutoff
                          THEN ds0 + 1 ELSE ds0
            fd == PySliceFrom(freq_data, data_start)
            nd == PySliceFrom(noise_data, data_start)
            top == PyGet(fd, -1)
            warn == (len - 1) * delta_f > top
            len2 == IF warn THEN (top \div delta_f) + 1 ELSE len
        IN  [kind |-> "returned",
             psd |-> [k \in 1..len2 |->
                         IF k - 1 < kmin THEN ZeroBin
                         ELSE psd_interp(fd, nd, (k - 1) * delta_f)],
             delta_f |-> delta_f, kmin |-> kmin, flow |-> flow,
             data_start |-> data_start, freq_data |-> fd, noise_data |-> nd,
             warned |-> warn]

from_numpy_arrays(freq_data, noise_data, len, delta_f, low_freq_cutoff) ==
    IF cutoff_below_data(freq_data, low_freq_cutoff)
    THEN Raised("ValueError", 0)
    ELSE resample(freq_data, noise_data, len, delta_f, low_freq_cutoff)

\* strictly increasing, non-negative frequency arrays
FreqArrays ==
    UNION {{s \in [1..n -> 0..MaxFreq] : \A i \in 1..(n - 1) : s[i] < s[i + 1]}
           : n \in 1..MaxN}

NoCall == [freq_data |-> <<>>, noise_data |-> <<>>, length |-> 0,
           delta_f |-> 0, low_freq_cutoff |-> 0]

\* A behaviour is one call: the functions keep no state between calls, so a
\* second call from the same state would only repeat the first.
CallFromNumpyArrays ==
    /\ np_ret.kind = "none"
    /\ \E freq_data \in FreqArrays, len \in 1..MaxLen, delta_f \in 1..MaxDf,
       low_freq_cutoff \in 0..MaxCut :
      \E noise_data \in [1..Len(freq_data) -> 1..MaxNoise] :
        /\ np_call' = [freq_data |-> freq_data, noise_data |-> noise_data,
                       length |-> len, delta_f |-> delta_f,
                       low_freq_cutoff |-> low_freq_cutoff]
        /\ np_ret' = from_numpy_arrays(freq_data, noise_data, len, delta_f,
                                       low_freq_cutoff)
        /\ UNCHANGED selector_vars

\* ------------------------------------------------------------------------
\* ligo.segments.segment, as used by the selector
\* ------------------------------------------------------------------------

Min2(a, b) == IF a <= b THEN a ELSE b
Max2(a, b) == IF a >= b THEN a ELSE b
Abs(x) == IF x >= 0 THEN x ELSE 0 - x

\* segments.segment(a, b): the pair, ordered
segment(a, b) == IF a <= b THEN <<a, b>> ELSE <<b, a>>

\* a.intersects(b): the intersection has non-zero length between the bounds
intersects(a, b) == a[2] > b[1] /\ a[1] < b[2]

\* abs(a & b), for intersecting a and b
overlap(a, b) == Min2(a[2], b[2]) - Max2(a[1], b[1])

\* ------------------------------------------------------------------------
\* PrecomputedTimeVaryingPSD
\* ------------------------------------------------------------------------

NoPSD == [delta_f |-> 0, data |-> <<>>]

SetMin(S) == CHOOSE x \in S : \A y \in S : x <= y
SetMax(S) == CHOOSE x \in S : \A y \in S : x >= y

\* self.begin, self.end
begin == SetMin({start_times[i] : i \in 1..Len(start_times)})
end == SetMax({end_times[i] : i \in 1..Len(end_times)})

\* load_frequencyseries(self.file_name, group=detector/psds/index)
load_frequencyseries(index) == psds[index + 1]

\* pycbc.psd.interpolate(psd, delta_f): the series on the grid of spacing
\* delta_f over the same frequency range; each bin holds the source value at
\* the source bin at or just below its frequency.
interpolate(psd, delta_f) ==
    LET n == ((Len(psd.data) - 1) * psd.delta_f) \div delta_f + 1
    IN  [delta_f |-> delta_f,
         data |-> [k \in 1..n |->
                      psd.data[((k - 1) * delta_f) \div psd.delta_f + 1]]]

\* faulty variant: the extension is left at the zeros it was created with
reconcile_length_zeros(psd, len) ==
    [delta_f |-> psd.delta_f,
     data |-> IF len > Len(psd.data)
              THEN [k \in 1..len |->
                       IF k <= Len(psd.data) THEN psd.data[k] ELSE 0]
              ELSE SubSeq(psd.data, 1, len)]

\* lines 264-271: psd2, of self.length bins
reconcile_length(psd, len) ==
    [delta_f |-> psd.delta_f,
     data |-> IF len > Len(psd.data)
              THEN [k \in 1..len |->
                       IF k <= Len(psd.data) THEN psd.data[k] ELSE Inf]
              ELSE SubSeq(psd.data, 1, len)]

\* faulty variant: the cutoffs compared with <=
below_file_f_low_or_equal(flow, file_flow) ==
    flow # None /\ flow <= file_flow

\* line 272
below_file_f_low(flow, file_flow) ==
    flow # None /\ flow < file_flow

\* lines 274-275: psd[0:k] = numpy.inf
mask_low(psd, k) ==
    [delta_f |-> psd.delta_f,
     data |-> [i \in 1..Len(psd.data) |->
                  IF i - 1 < k THEN Inf ELSE psd.data[i]]]

\* get_psd(index, delta_f): the loaded (and resampled) series, the series
\* after length reconciliation, and the returned series
get_psd(index, delta_f) ==
    LET stored == load_frequencyseries(index)
        loaded == IF delta_f # None /\ stored.delta_f # delta_f
                  THEN interpolate(stored, delta_f)
                  ELSE stored
        reconciled == IF length # None /\ length # Len(loaded.data)
                      THEN reconcile_length(loaded, length)
                      ELSE loaded
        masked == IF below_file_f_low(f_low, file_f_low)
                  THEN mask_low(reconciled, file_f_low \div reconciled.delta_f)
                  ELSE reconciled
    IN  [loaded |-> loaded, reconciled |-> reconciled, psd |-> masked]

\* the outcome of a selector call that raised
SelRaised(op, err) ==
    [op |-> op, kind |-> err, sidx |-> <<>>, loads |-> <<>>, best |-> None,
     loaded |-> NoPSD, reconciled |-> NoPSD, psd |-> NoPSD,
     truncated |-> FALSE]

RangeError == "ValueError: PSD file doesn't contain require times"
KthError == "ValueError: kth(=2) out of bounds"
NoPSDError == "ValueError: No PSDs found intersecting segment!"

\* faulty variant: only the upper end of the coverage is checked
outside_coverage_upper_only(inp_seg) == inp_seg[1] > end

\* line 223
outside_coverage(inp_seg) == inp_seg[1] > end \/ inp_seg[2] < begin

\* numpy.abs(self.start_times - inp_seg[0])
start_distance(inp_seg, i) == Abs(start_times[i + 1] - inp_seg[1])

\* numpy.argpartition(a, 2)[:2]: the first two positions of an array whose
\* position 2 holds the third smallest element, with nothing larger before
\* it and nothing smaller after it. The order of the two is unspecified, so
\* every order is an outcome. (Empty when the array has fewer than 3 elements:
\* kth is then out of bounds.)
argpartition2(inp_seg) ==
    LET N == Len(start_times)
    IN  {s \in (0..(N - 1)) \X (0..(N - 1)) :
            /\ N >= 3
            /\ s[1] # s[2]
            /\ \A k \in (0..(N - 1)) \ {s[1], s[2]} :
                 /\ start_distance(inp_seg, k) >= start_distance(inp_seg, s[1])
                 /\ start_distance(inp_seg, k) >= start_distance(inp_seg, s[2])}

\* faulty variant: the second candidate also wins a tie
second_is_better_or_equal(psd_overlap, second_overlap) ==
    psd_overlap <= second_overlap

\* line 241
second_is_better(psd_overlap, second_overlap) ==
    psd_overlap < second_overlap

\* lines 230-256, for the candidates sidx
select_psd(inp_seg, delta_f, sidx) ==
    LET nearest == segment(start_times[sidx[1] + 1], end_times[sidx[1] + 1])
        next_nearest == segment(start_times[sidx[2] + 1], end_times[sidx[2] + 1])
        hit1 == intersects(inp_seg, nearest)
        psd_overlap == IF hit1 THEN overlap(nearest, inp_seg) ELSE 0
        hit2 == /\ intersects(inp_seg, next_nearest)
                /\ second_is_better(psd_overlap, overlap(next_nearest, inp_seg))
        best == IF hit2 THEN sidx[2] ELSE IF hit1 THEN sidx[1] ELSE None
        loads == (IF hit1 THEN <<sidx[1]>> ELSE <<>>)
                  \o (IF hit2 THEN <<sidx[2]>> ELSE <<>>)
    IN  IF best = None
        THEN [SelRaised("assosiate_psd_to_inspiral_segment", NoPSDError)
                EXCEPT !.sidx = sidx]
        ELSE LET got == get_psd(best, delta_f)
             IN  [op |-> "assosiate_psd_to_inspiral_segment",
                  kind |-> "returned", sidx |-> sidx, loads |-> loads,
                  best |-> best, loaded |-> got.loaded,
                  reconciled |-> got.reconciled, psd |-> got.psd,
                  truncated |-> psd_inverse_length # 0]

\* the segments and the delta_f overrides a caller passes
Segments == {s \in (0..MaxT) \X (0..MaxT) : s[1] <= s[2]}
DeltaFs == {None} \cup (1..MaxDf)

NoSelCall == [op |-> "none", inp_seg |-> <<0, 0>>, index |-> 0,
              delta_f |-> None]

\* assosiate_psd_to_inspiral_segment(inp_seg, delta_f)
assosiate_psd_to_inspiral_segment ==
    /\ sel_ret.kind = "none"
    /\ \E inp_seg \in Segments, delta_f \in DeltaFs :
        /\ sel_call' = [op |-> "assosiate_psd_to_inspiral_segment",
                        inp_seg |-> inp_seg, index |-> 0, delta_f |-> delta_f]
        /\ IF outside_coverage(inp_seg)
           THEN sel_ret' = SelRaised("assosiate_psd_to_inspiral_segment",
                                     RangeError)
           ELSE IF argpartition2(inp_seg) = {}
           THEN sel_ret' = SelRaised("assosiate_psd_to_inspiral_segment",
                                     KthError)
           ELSE \E sidx \in argpartition2(inp_seg) :
                    sel_ret' = select_psd(inp_seg, delta_f, sidx)
        /\ UNCHANGED <<start_times, end_times, file_f_low, f_low, length,
                       psd_inverse_length, psds>>
        /\ UNCHANGED resampler_vars

\* get_psd(index, delta_f), called directly
CallGetPsd ==
    /\ sel_ret.kind = "none"
    /\ \E index \in 0..(Len(psds) - 1), delta_f \in DeltaFs :
        /\ sel_call' = [op |-> "get_psd", inp_seg |-> <<0, 0>>,
                        index |-> index, delta_f |-> delta_f]
        /\ LET got == get_psd(index, delta_f)
           IN  sel_ret' = [op |-> "get_psd", kind |-> "returned",
                           sidx |-> <<>>, loads |-> <<index>>,
                           best |-> index, loaded |-> got.loaded,
                           reconciled |-> got.reconciled, psd |-> got.psd,
                           truncated |-> FALSE]
        /\ UNCHANGED <<start_times, end_times, file_f_low, f_low, length,
                       psd_inverse_length, psds>>
        /\ UNCHANGED resampler_vars

\* ------------------------------------------------------------------------
\* Initial states and specifications
\* ------------------------------------------------------------------------

\* the PSD stored at an index: n bins of spacing df, the value of a bin
\* depending on the index and the bin
StoredPSD(index, n, df) ==
    [delta_f |-> df,
     data |-> [k \in 1..n |-> 1 + ((index + k) % MaxVal)]]

\* the validity intervals of a store: start before end
Intervals == {s \in (0..MaxT) \X (0..MaxT) : s[1] < s[2]}

\* the stores: 1..MaxStore entries, listed by increasing start time
Stores ==
    UNION {{st \in [1..n -> Intervals] :
               \A i \in 1..(n - 1) : st[i][1] < st[i + 1][1]}
           : n \in 1..MaxStore}

\* no resampler call made yet
ResamplerIdle == np_call = NoCall /\ np_ret = Raised("none", 0)

\* no selector call made yet
SelectorIdle == sel_call = NoSelCall /\ sel_ret = SelRaised("none", "none")

\* __init__ on a store of any shape, each PSD of one bin, no target length
InitSelector ==
    /\ ResamplerIdle /\ SelectorIdle
    /\ \E st \in Stores :
        /\ start_times = [i \in 1..Len(st) |-> st[i][1]]
        /\ end_times = [i \in 1..Len(st) |-> st[i][2]]
        /\ psds = [i \in 1..Len(st) |-> StoredPSD(i - 1, 1, 1)]
    /\ file_f_low = 0
    /\ f_low = None
    /\ length = None
    /\ psd_inverse_length \in {0, 1}

\* __init__ on a three-entry store, for every configuration of get_psd
InitGetPsd ==
    /\ ResamplerIdle /\ SelectorIdle
    /\ start_times = <<0, 1, 2>>
    /\ end_times = <<1, 2, 3>>
    /\ \E n \in 1..MaxBins, df \in 1..MaxDf :
           psds = [i \in 1..3 |-> StoredPSD(i - 1, n, df)]
    /\ file_f_low \in 0..MaxFlow
    /\ f_low \in {None} \cup (0..MaxFlow)
    /\ length \in {None} \cup (1..MaxBins)
    /\ psd_inverse_length = 0

\* the resampler alone: the selector is built on a one-entry store
InitResampler ==
    /\ ResamplerIdle /\ SelectorIdle
    /\ start_times = <<0>> /\ end_times = <<1>>
    /\ psds = <<StoredPSD(0, 1, 1)>>
    /\ file_f_low = 0 /\ f_low = None /\ length = None
    /\ psd_inverse_length = 0

NextResampler == CallFromNumpyArrays
NextSelector == assosiate_psd_to_inspiral_segment \/ CallGetPsd

\* the resampler, called on every input
SpecResampler == InitResampler /\ [][NextResampler]_vars

\* the selector over every store
SpecSelector == InitSelector /\ [][NextSelector]_vars

\* the selector over every get_psd configuration
SpecGetPsd == InitGetPsd /\ [][NextSelector]_vars

\* ------------------------------------------------------------------------
\* Properties of from_numpy_arrays (SpecResampler)
\* ------------------------------------------------------------------------

Resampled == np_ret.kind # "none"
MaxInputFreq == np_call.freq_data[Len(np_call.freq_data)]
RequestedKmin == np_call.low_freq_cutoff \div np_call.delta_f
RequestedFlow == RequestedKmin * np_call.delta_f
CutoffInData == np_call.low_freq_cutoff >= np_call.freq_data[1]
CutoffPresent ==
    \E i \in 1..Len(np_call.freq_data) :
        np_call.freq_data[i] = np_call.low_freq_cutoff

\* C1: for every strictly increasing freq_data and every cutoff at or above
\* freq_data[0], the call returns a series, and every bin of it below
\* kmin = floor(low_freq_cutoff / delta_f) is exactly zero.
C1_ReturnsZeroBelowKmin ==
    (Resampled /\ CutoffInData) =>
        /\ np_ret.kind = "returned"
        /\ \A k \in 1..Len(np_ret.psd) :
             k - 1 < RequestedKmin => np_ret.psd[k] = ZeroBin

\* C2: the call does not raise; when (length-1)*delta_f exceeds the highest
\* input frequency it warns and returns floor(max_freq/delta_f)+1 bins, and
\* otherwise it returns exactly length bins.
C2_LengthShrinksOrKept ==
    (Resampled /\ CutoffInData) =>
        /\ np_ret.kind = "returned"
        /\ IF (np_call.length - 1) * np_call.delta_f > MaxInputFreq
           THEN /\ np_ret.warned
                /\ Len(np_ret.psd) = (MaxInputFreq \div np_call.delta_f) + 1
           ELSE /\ ~np_ret.warned
                /\ Len(np_ret.psd) = np_call.length

\* C8: every call with freq_data[0] > low_freq_cutoff fails with the domain
\* error of line 54 and returns no series, whatever length and delta_f are.
C8_CutoffBelowDataRaises ==
    (Resampled /\ np_call.freq_data[1] > np_call.low_freq_cutoff) =>
        /\ np_ret.kind = "ValueError"
        /\ np_ret.psd = <<>>

\* C8 witness: a call below the data that also asks for too many samples,
\* the case that by itself would only warn
C8_Witness ==
    /\ Resampled
    /\ np_call.freq_data[1] > np_call.low_freq_cutoff
    /\ (np_call.length - 1) * np_call.delta_f > MaxInputFreq
    /\ np_ret.kind = "ValueError"

\* C9: for every cutoff at or above freq_data[0] the trimming index is a
\* valid non-negative index, the retained data is the suffix from it, and
\* the first retained frequency is the cutoff itself when the cutoff is an
\* input sample, and otherwise the last input frequency at or before flow.
\* (Stated of the calls that reach the trimming of lines 67-68 with two input
\* samples or more, where a wrong index loses data.)
C9_TrimStartsAtOrBeforeFlow ==
    (Resampled /\ CutoffInData /\ np_ret.kind = "returned"
               /\ Len(np_call.freq_data) >= 2) =>
        /\ np_ret.data_start \in 0..(Len(np_call.freq_data) - 1)
        /\ np_ret.freq_data = SubSeq(np_call.freq_data, np_ret.data_start + 1,
                                     Len(np_call.freq_data))
        /\ np_ret.freq_data # <<>>
        /\ IF CutoffPresent
           THEN np_ret.freq_data[1] = np_call.low_freq_cutoff
           ELSE /\ np_ret.freq_data[1] <= RequestedFlow
                /\ ~\E i \in 1..Len(np_call.freq_data) :
                      /\ np_call.freq_data[i] > np_ret.freq_data[1]
                      /\ np_call.freq_data[i] < RequestedFlow

\* ------------------------------------------------------------------------
\* Properties of PrecomputedTimeVaryingPSD (SpecSelector, SpecGetPsd)
\* ------------------------------------------------------------------------

Associated ==
    /\ sel_ret.kind # "none"
    /\ sel_call.op = "assosiate_psd_to_inspiral_segment"
GotPsd == sel_ret.kind = "returned" /\ sel_call.op = "get_psd"

\* the interval of store entry i (0-based)
Candidate(i) == segment(start_times[i + 1], end_times[i + 1])
Hits(i) == intersects(sel_call.inp_seg, Candidate(i))
OverlapOf(i) == IF Hits(i) THEN overlap(Candidate(i), sel_call.inp_seg) ELSE 0

\* the segment lies entirely after the latest end or before the earliest start
EntirelyOutside ==
    \/ \A i \in 1..Len(end_times) : sel_call.inp_seg[1] > end_times[i]
    \/ \A i \in 1..Len(start_times) : sel_call.inp_seg[2] < start_times[i]

\* C3: the PSD of the second-examined candidate is returned only if that
\* candidate intersects the segment with an overlap strictly greater than
\* the first's (zero if the first does not intersect); when both intersect
\* with equal overlap the first-examined candidate's PSD is returned.
C3_SecondWinsOnlyStrictly ==
    (Associated /\ sel_ret.kind = "returned") =>
        /\ sel_ret.best \in {sel_ret.sidx[1], sel_ret.sidx[2]}
        /\ sel_ret.loads[Len(sel_ret.loads)] = sel_ret.best
        /\ sel_ret.best = sel_ret.sidx[2] =>
             /\ Hits(sel_ret.sidx[2])
             /\ OverlapOf(sel_ret.sidx[2]) > OverlapOf(sel_ret.sidx[1])
        /\ ( /\ Hits(sel_ret.sidx[1])
             /\ Hits(sel_ret.sidx[2])
             /\ OverlapOf(sel_ret.sidx[1]) = OverlapOf(sel_ret.sidx[2]) )
           => sel_ret.best = sel_ret.sidx[1]

\* C3 witness: both candidates intersect with the same positive overlap and
\* the first-examined one is returned
C3_Witness ==
    /\ Associated
    /\ sel_ret.kind = "returned"
    /\ Hits(sel_ret.sidx[1])
    /\ Hits(sel_ret.sidx[2])
    /\ OverlapOf(sel_ret.sidx[1]) = OverlapOf(sel_ret.sidx[2])
    /\ OverlapOf(sel_ret.sidx[1]) > 0
    /\ sel_ret.best = sel_ret.sidx[1]

\* C4: for a segment that passes the range check, the call fails with
\* 'No PSDs found intersecting segment' if and only if neither candidate
\* intersects the segment; when one does, a PSD is returned.
C4_NoPSDErrorIffNoCandidateHits ==
    (Associated /\ Len(sel_ret.sidx) = 2) =>
        /\ sel_ret.kind = NoPSDError
             <=> (~Hits(sel_ret.sidx[1]) /\ ~Hits(sel_ret.sidx[2]))
        /\ (Hits(sel_ret.sidx[1]) \/ Hits(sel_ret.sidx[2]))
             => sel_ret.kind = "returned"

\* C5: a segment entirely outside [min(start_times), max(end_times)] fails
\* with the range error, before any PSD is loaded, and returns no PSD.
C5_OutsideCoverageRaises ==
    (Associated /\ EntirelyOutside) =>
        /\ sel_ret.kind = RangeError
        /\ sel_ret.loads = <<>>
        /\ sel_ret.psd = NoPSD

\* C5 witness: a segment before the earliest start of a store with three
\* entries or more is refused with the range error
C5_Witness ==
    /\ Associated
    /\ Len(start_times) >= 3
    /\ \A i \in 1..Len(start_times) : sel_call.inp_seg[2] < start_times[i]
    /\ sel_ret.kind = RangeError

\* C10: for a store of two or more entries and a segment passing the range
\* check, two distinct entries are examined, and no other entry starts
\* strictly nearer to the segment's start than either of them.
C10_TwoNearestExamined ==
    (Associated /\ Len(start_times) >= 2 /\ sel_ret.kind # RangeError) =>
        /\ Len(sel_ret.sidx) = 2
        /\ sel_ret.sidx[1] # sel_ret.sidx[2]
        /\ \A k \in (0..(Len(start_times) - 1))
                      \ {sel_ret.sidx[1], sel_ret.sidx[2]} :
             /\ start_distance(sel_call.inp_seg, k)
                  >= start_distance(sel_call.inp_seg, sel_ret.sidx[1])
             /\ start_distance(sel_call.inp_seg, k)
                  >= start_distance(sel_call.inp_seg, sel_ret.sidx[2])

\* the masking of get_psd applies, and the bin below which it applies
MaskingApplies == f_low # None /\ f_low < file_f_low
MaskBelow == file_f_low \div sel_ret.psd.delta_f

\* C6: with a target length L and a loaded (resampled) PSD of n bins,
\* get_psd returns exactly L bins; the bins n <= i < L are +infinity; the
\* bins i < min(n, L) that masking does not overwrite hold the loaded value.
C6_LengthReconciled ==
    (GotPsd /\ length # None) =>
        /\ Len(sel_ret.psd.data) = length
        /\ \A i \in 1..length :
             /\ i > Len(sel_ret.loaded.data) => sel_ret.psd.data[i] = Inf
             /\ (i <= Len(sel_ret.loaded.data)
                   /\ ~(MaskingApplies /\ i - 1 < MaskBelow))
                => sel_ret.psd.data[i] = sel_ret.loaded.data[i]

\* C6 witness: a resampled PSD shorter than the target, extended, with a
\* loaded bin surviving in the result
C6_Witness ==
    /\ GotPsd
    /\ length # None
    /\ sel_call.delta_f # None
    /\ sel_ret.loaded # psds[sel_call.index + 1]
    /\ length > Len(sel_ret.loaded.data)
    /\ sel_ret.psd.data[length] = Inf
    /\ sel_ret.psd.data[Len(sel_ret.loaded.data)] # Inf

\* C7: when the configured cutoff is strictly below the store's, every
\* returned bin below floor(store_cutoff / delta_f) is +infinity; when it
\* is equal, above or unset, masking changes no bin.
C7_MaskedBelowFileCutoff ==
    GotPsd =>
        IF f_low # None /\ f_low < file_f_low
        THEN \A i \in 1..Len(sel_ret.psd.data) :
                 i - 1 < MaskBelow => sel_ret.psd.data[i] = Inf
        ELSE sel_ret.psd = sel_ret.reconciled

\* C7 witness: masking applied to some but not all bins of the result
C7_Witness ==
    /\ GotPsd
    /\ f_low # None
    /\ f_low < file_f_low
    /\ MaskBelow >= 1
    /\ Len(sel_ret.psd.data) > MaskBelow
    /\ sel_ret.psd.data[1] = Inf
    /\ sel_ret.reconciled.data[1] # Inf
    /\ sel_ret.psd.data[Len(sel_ret.psd.data)] # Inf

====
